---------------------------- MODULE Spec2Model ----------------------------
(***************************************************************************)
(* A model of spcmngnrn.py, the directory treemap viewer: the background   *)
(* scan worker (ScanWorker.run driving the recursive scan_directory), the  *)
(* main-thread handlers of MainWindow and the navigation state kept by     *)
(* TreemapWidget.                                                          *)
(*                                                                         *)
(* Paths are sequences of path components: <<>> is "/", <<"proc","1">> is  *)
(* "/proc/1".  Only absolute, normalised paths occur, so os.path.abspath   *)
(* leaves them as they are and a string prefix test on "ex + os.sep" is a  *)
(* prefix test on components.                                              *)
(*                                                                         *)
(* A Node object is identified by <<w, path>>: w is the scan (the worker)  *)
(* that created it, path its path (unique within one scanned tree).        *)
(*                                                                         *)
(* Not modelled: the text of the status bar, tooltips and the Run action's *)
(* call into the desktop.  In the program's state machine a paint pass is  *)
(* abstracted to the set of nodes it draws (DrawSet); the geometry of one  *)
(* block (draw_node with squarify, on exact rationals) is modelled apart,  *)
(* in LayoutSpec and SquarifySpec.                                         *)
(***************************************************************************)
EXTENDS Integers, Sequences, FiniteSets, TLC

\* ------------------------------------------------------------------ bounds
\* Number of scans (start_scan calls) in one behaviour.
MaxScans == 2
\* Longest baseHueStack a double-click is allowed to build.
MaxHueDepth == 2
\* Deepest level below current_node that one paint pass decomposes.
MaxDrawDepth == 1
\* Longest list of areas squarify is called with.
MaxAreas == 3
\* Most children a laid-out directory has.
MaxChildren == 3
\* The count cap of draw_node, children[:2000] (line 343), scaled down so that
\* a directory of MaxChildren children exceeds it.
MaxVisible == 2

\* ---------------------------------------------------------- the filesystem
NoPath == <<"<none>">>

Front(s) == SubSeq(s, 1, Len(s) - 1)

Last(s) == s[Len(s)]

IsPrefix(a, b) == Len(a) <= Len(b) /\ SubSeq(b, 1, Len(a)) = a

IsStrictPrefix(a, b) == Len(a) < Len(b) /\ SubSeq(b, 1, Len(a)) = a

\* The directory that the environment may remove while the program runs.
TmpDir == <<"tmp">>

\* Real directories of the filesystem under test.
FsDirs == { <<>>, <<"proc">>, <<"proc", "1">>, <<"home">>, <<"home", "d">>, TmpDir }

\* Symbolic links (here: a link to a directory).
FsLinks == { <<"home", "l">> }

\* Regular files.
FsFiles == { <<"proc", "1", "s">>, <<"proc", "v">>, <<"home", "a">>, <<"home", "d", "b">> }

FsPaths == FsDirs \cup FsLinks \cup FsFiles

\* st_size reported by os.lstat for a path that is not a real directory.
LstatSize(path) ==
  CASE path = <<"proc", "1", "s">> -> 1
    [] path = <<"proc", "v">> -> 2
    [] path = <<"home", "a">> -> 2
    [] path = <<"home", "d", "b">> -> 1
    [] path = <<"home", "l">> -> 1
    [] OTHER -> 0

\* The names os.scandir yields for a directory, in the order it yields them.
DirNames(path) ==
  CASE path = <<>> -> <<"proc", "home", "tmp">>
    [] path = <<"proc">> -> <<"1", "v">>
    [] path = <<"proc", "1">> -> <<"s">>
    [] path = <<"home">> -> <<"a", "d", "l">>
    [] path = <<"home", "d">> -> <<"b">>
    [] OTHER -> <<>>

\* Directories whose listing may fail (permission denied, I/O error) at any
\* point of the iteration.
FailableDirs == { <<"home">> }

\* Whether path exists, given whether TmpDir has been removed.
Exists(path, gone) == path \in FsPaths /\ ~(gone /\ path = TmpDir)

\* entry.path of the entries os.scandir(path) yields.
Entries(path, gone) ==
  LET all == [i \in 1..Len(DirNames(path)) |-> Append(path, DirNames(path)[i])]
  IN SelectSeq(all, LAMBDA p : Exists(p, gone))

\* --------- Excluded Folders ---------
EXCLUDED_DIRS == << <<"proc">>, <<"mnt">>, <<"sys">>, <<"dev">>, <<"run">> >>

is_excluded_in(dirs, path) ==
  \E i \in 1..Len(dirs) : path = dirs[i] \/ IsStrictPrefix(dirs[i], path)

\* A variant that forgets the startswith(ex + os.sep) half of the test.
is_excluded_exact(path) ==
  \E i \in 1..Len(EXCLUDED_DIRS) : path = EXCLUDED_DIRS[i]

is_excluded(path) == is_excluded_in(EXCLUDED_DIRS, path)

\* os.path.isdir(path) and not os.path.islink(path)
IsRealDir(path, gone) == Exists(path, gone) /\ path \in FsDirs

\* --------- Utility: Compute an initial hue from a path ---------
NameCode(n) ==
  CASE n = "proc" -> 7 [] n = "home" -> 11 [] n = "tmp" -> 13 [] n = "1" -> 17
    [] n = "d" -> 19 [] n = "a" -> 23 [] n = "b" -> 29 [] n = "l" -> 31
    [] n = "s" -> 37 [] n = "v" -> 41 [] OTHER -> 43

RECURSIVE PathDigest(_)
PathDigest(path) ==
  IF path = <<>> THEN 5381
  ELSE (PathDigest(Front(path)) * 33 + NameCode(Last(path))) % 65536

\* int(md5(path).hexdigest(), 16) % 360, with the digest abstracted to a
\* deterministic hash of the path.
compute_initial_hue(path) == PathDigest(path) % 360


\* --------- Data Model: Node and scanning ---------
\* Node.hue before the first layout pass (None).
NoHue == -1

\* "No node" (None) where a Node reference is expected.
NoNode == <<0, NoPath>>

\* The slot of a path for which the scan has created no Node.
Absent ==
  [made |-> FALSE, is_dir |-> FALSE, size |-> 0, children |-> <<>>,
   parent |-> NoPath, hue |-> NoHue]

\* Node(path, name, is_dir, size, parent=parent)
Node(is_dir, size, parent) ==
  [made |-> TRUE, is_dir |-> is_dir, size |-> size, children |-> <<>>,
   parent |-> parent, hue |-> NoHue]

EmptyTree == [p \in FsPaths |-> Absent]

Workers == 1..MaxScans

VARIABLES
  removed,            \* environment: TmpDir has been removed
  loaded_directory,   \* MainWindow.loaded_directory (NoPath for None)
  scanning,           \* MainWindow.scanning
  scan_worker,        \* MainWindow.scan_worker (0 for None)
  nscans,             \* number of ScanWorker objects created so far
  root_node,          \* TreemapWidget.root_node
  current_node,       \* TreemapWidget.current_node
  baseHueStack,       \* TreemapWidget.baseHueStack
  selected_node,      \* TreemapWidget.selected_node
  rect_map,           \* TreemapWidget.rect_map, as a set of <<node, depth>>
  zoomable_map,       \* TreemapWidget.zoomable_map, as a set of <<node, depth>>
  viewDepth,          \* the widget's size, as the depth a paint pass decomposes to
  buttons,            \* enabled state of reload / goTop / goUp / run actions
  queue,              \* worker signals queued for the main thread
  wpc,                \* per worker: "none", "start", "scan", "done", "deleted"
  wpath,              \* per worker: ScanWorker.path
  stopped,            \* per worker: ScanWorker._stopped
  stack,              \* per worker: the scan_directory call stack
  nodes,              \* per worker: the Node objects it has created, by path
  emitted,            \* per worker: the signals it has emitted, in order
  visited,            \* per worker: the paths it has created a Node for, in order
  hist,               \* per worker: what happened to the scan (history)
  lastOp,             \* the last main-thread call (history)
  pre,                \* navigation state remembered by lastOp (history)
  sq,                 \* a call of squarify: its arguments and locals
  dn                  \* a call of draw_node on one block: its arguments and results

vars ==
  <<removed, loaded_directory, scanning, scan_worker, nscans, root_node,
    current_node, baseHueStack, selected_node, rect_map, zoomable_map,
    viewDepth, buttons, queue, wpc, wpath, stopped, stack, nodes, emitted, visited, hist, lastOp, pre,
    sq, dn>>

mainVars ==
  <<loaded_directory, scanning, scan_worker, nscans, root_node, current_node,
    baseHueStack, selected_node, rect_map, zoomable_map, viewDepth, buttons,
    lastOp, pre, sq, dn>>

\* --------- scan_directory, one call frame ---------
Frame(path, parent) ==
  [path |-> path, parent |-> parent, phase |-> "enter", idx |-> 0,
   children |-> <<>>, total |-> 0]

\* The signals of ScanWorker.
Progress(path) == [sig |-> "status_update", msg |-> "Scanning: ", path |-> path]

Status(msg) == [sig |-> "status_update", msg |-> msg, path |-> NoPath]

Signal(sig) == [sig |-> sig, msg |-> "", path |-> NoPath]

Terminal == {"finished", "cancelled", "error"}

\* ScanWorker.run, try branch after scan_directory returned (lines 226-227).
EmitFinished(st) ==
  [st EXCEPT !.emitted = @ \o <<Status("Scan completed."), Signal("finished")>>,
             !.pc = "done", !.out = "finished"]

\* A variant of the handler below that falls through to the finished signal.
EmitCancelledThenFinished(st) ==
  [st EXCEPT !.emitted = @ \o <<Status("Scan cancelled."), Signal("cancelled"),
                                Status("Scan completed."), Signal("finished")>>,
             !.pc = "done", !.out = "finished"]

\* ScanWorker.run, except ScanCancelledException (lines 228-230).
EmitCancelled(st) ==
  [st EXCEPT !.emitted = @ \o <<Status("Scan cancelled."), Signal("cancelled")>>,
             !.pc = "done", !.out = "cancelled"]

\* ScanWorker.run, except Exception (lines 231-233).
EmitError(st) ==
  [st EXCEPT !.emitted = @ \o <<Status("Scan error: "), Signal("error")>>,
             !.pc = "done", !.out = "error"]

\* A variant of the accumulation below that counts children instead.
AddChildCount(total, size) == total + 1

\* total += child.size (line 143)
AddChild(total, size) == total + size

\* A call of scan_directory returns the Node at path child: to the loop of
\* the calling frame (lines 142-144), or to ScanWorker.run when it was the
\* root call.  st.stack is the stack after the returning frame was popped.
ReturnNode(st, child) ==
  IF st.stack = <<>> THEN EmitFinished(st)
  ELSE LET n == Len(st.stack)
           f == st.stack[n]
       IN [st EXCEPT !.stack[n] =
             [f EXCEPT !.total = AddChild(@, st.nodes[child].size),
                       !.children = Append(@, child)]]

\* The for loop of the top frame is left, by exhaustion or by an exception
\* that "except Exception: pass" swallows (lines 145-149).
CloseDirectory(st) ==
  LET f == Last(st.stack)
      nds == [st.nodes EXCEPT ![f.path].children = f.children,
                              ![f.path].size = f.total]
  IN ReturnNode([st EXCEPT !.nodes = nds, !.stack = Front(@)], f.path)

\* raise ScanCancelledException() at line 117, in the call on top of the
\* stack: it propagates to ScanWorker.run from the root call, and into the
\* "except Exception" of the calling frame's loop from any other call.
RaiseInCall(st) ==
  LET s1 == [st EXCEPT !.stack = Front(@)]
  IN IF s1.stack = <<>> THEN EmitCancelled(s1) ELSE CloseDirectory(s1)

\* scan_directory from its first line to the loop or the return
\* (lines 113-135 and 150-154), for the frame on top of the stack.
VisitEntry(st, stop, gone) ==
  LET f == Last(st.stack)
      s0 == [st EXCEPT !.emitted = Append(@, Progress(f.path))]
      is_dir == IsRealDir(f.path, gone)
      popped == [s0 EXCEPT !.stack = Front(@), !.visited = Append(@, f.path)]
  IN IF stop THEN RaiseInCall(s0)
     ELSE IF is_dir /\ f.parent # NoPath /\ is_excluded(f.path)
       THEN ReturnNode([popped EXCEPT !.nodes[f.path] = Node(TRUE, 0, f.parent)],
                       f.path)
     ELSE IF is_dir
       THEN [s0 EXCEPT !.nodes[f.path] = Node(TRUE, 0, f.parent),
                       !.visited = Append(@, f.path),
                       !.stack[Len(st.stack)].phase = "loop"]
     ELSE ReturnNode(
            [popped EXCEPT !.nodes[f.path] =
               Node(FALSE,
                    IF Exists(f.path, gone) THEN LstatSize(f.path) ELSE 0,
                    f.parent)],
            f.path)

\* A variant of the loop step below without the stop check of line 140.
LoopStepNoStopCheck(st, stop, gone, fails) ==
  LET n == Len(st.stack)
      f == st.stack[n]
      es == Entries(f.path, gone)
  IN IF fails \/ f.idx >= Len(es) THEN CloseDirectory(st)
     ELSE [st EXCEPT !.stack =
             Append([@ EXCEPT ![n].idx = f.idx + 1], Frame(es[f.idx + 1], f.path))]

\* A variant of the loop step below without the try/except around the loop:
\* a listing failure propagates to ScanWorker.run.
LoopStepUnguarded(st, stop, gone, fails) ==
  LET n == Len(st.stack)
      f == st.stack[n]
      es == Entries(f.path, gone)
  IN IF fails THEN EmitError([st EXCEPT !.stack = <<>>])
     ELSE IF f.idx >= Len(es) \/ stop THEN CloseDirectory(st)
     ELSE [st EXCEPT !.stack =
             Append([@ EXCEPT ![n].idx = f.idx + 1], Frame(es[f.idx + 1], f.path))]

\* One iteration of "for entry in os.scandir(path)" up to the recursive call
\* (lines 139-142), for the frame on top of the stack; fails says that the
\* listing raises here.
LoopStep(st, stop, gone, fails) ==
  LET n == Len(st.stack)
      f == st.stack[n]
      es == Entries(f.path, gone)
  IN IF fails \/ f.idx >= Len(es) \/ stop THEN CloseDirectory(st)
     ELSE [st EXCEPT !.stack =
             Append([@ EXCEPT ![n].idx = f.idx + 1], Frame(es[f.idx + 1], f.path))]

WorkerState(w) ==
  [stack |-> stack[w], nodes |-> nodes[w], emitted |-> emitted[w],
   visited |-> visited[w], pc |-> wpc[w], out |-> ""]

\* The worker's variables after a step that leaves it in state st.
WorkerBecomes(w, st) ==
  /\ stack' = [stack EXCEPT ![w] = st.stack]
  /\ nodes' = [nodes EXCEPT ![w] = IF st.out = "cancelled" THEN EmptyTree ELSE st.nodes]
  /\ emitted' = [emitted EXCEPT ![w] = st.emitted]
  /\ visited' = [visited EXCEPT ![w] = st.visited]
  /\ wpc' = [wpc EXCEPT ![w] = st.pc]
  /\ queue' = IF st.out = "" THEN queue ELSE Append(queue, [w |-> w, sig |-> st.out])


\* Node objects stay alive while something refers to their tree: the widget's
\* fields and maps, a result still queued, or a worker still running.
RefWorkers(root, cur, sel, rmap, zmap) ==
  ({root[1], cur[1], sel[1]} \cup {e[1][1] : e \in rmap \cup zmap}) \ {0}

Pending(w, pcs, q) ==
  pcs[w] \in {"start", "scan"} \/ \E i \in 1..Len(q) : q[i].w = w

Collect(nds, refs, pcs, q) ==
  [w \in Workers |-> IF w \in refs \/ Pending(w, pcs, q) THEN nds[w] ELSE EmptyTree]

NoHist ==
  [stopMid |-> FALSE, rootMissing |-> FALSE, failed |-> <<>>,
   stopReq |-> FALSE, visitedAtStop |-> 0, openAtStop |-> {}, depthAtStop |-> 0,
   steps |-> 0]

\* The history of worker w after one more step of scan_directory.
Stepped(h) == IF h.stopReq THEN [h EXCEPT !.steps = @ + 1] ELSE h

\* The directories worker w has open for listing.
OpenDirs(w) ==
  {stack[w][i].path : i \in {j \in DOMAIN stack[w] : stack[w][j].phase = "loop"}}

NoPre == [node |-> NoNode, stack |-> <<>>]

\* No call of squarify, no call of draw_node under observation.
NoCall == [pc |-> "idle"]

\* The program's state after MainWindow.__init__.
ProgramInit ==
  /\ removed = FALSE
  /\ loaded_directory = NoPath
  /\ scanning = FALSE
  /\ scan_worker = 0
  /\ nscans = 0
  /\ root_node = NoNode
  /\ current_node = NoNode
  /\ baseHueStack = <<>>
  /\ selected_node = NoNode
  /\ rect_map = {}
  /\ zoomable_map = {}
  /\ viewDepth = MaxDrawDepth
  /\ buttons = [reload |-> FALSE, goTop |-> FALSE, goUp |-> FALSE, run |-> FALSE]
  /\ queue = <<>>
  /\ wpc = [w \in Workers |-> "none"]
  /\ wpath = [w \in Workers |-> NoPath]
  /\ stopped = [w \in Workers |-> FALSE]
  /\ stack = [w \in Workers |-> <<>>]
  /\ nodes = [w \in Workers |-> EmptyTree]
  /\ emitted = [w \in Workers |-> <<>>]
  /\ visited = [w \in Workers |-> <<>>]
  /\ hist = [w \in Workers |-> NoHist]
  /\ lastOp = "other"
  /\ pre = NoPre

Init ==
  /\ ProgramInit
  /\ sq = NoCall
  /\ dn = NoCall

\* --------- Background Scan Worker ---------
\* ScanWorker.run up to the call of scan_directory (lines 221-223).
RunStart(w) ==
  /\ wpc[w] = "start"
  /\ wpc' = [wpc EXCEPT ![w] = "scan"]
  /\ emitted' = [emitted EXCEPT ![w] = Append(@, Status("Scanning ... "))]
  /\ stack' = [stack EXCEPT ![w] = <<Frame(wpath[w], NoPath)>>]
  /\ UNCHANGED <<removed, mainVars, queue, wpath, stopped, nodes, visited, hist>>

\* The worker enters a call of scan_directory (lines 113-135, 150-154).
Visit(w) ==
  /\ wpc[w] = "scan"
  /\ stack[w] # <<>>
  /\ Last(stack[w]).phase = "enter"
  /\ WorkerBecomes(w, VisitEntry(WorkerState(w), stopped[w], removed))
  /\ hist' = [hist EXCEPT ![w] =
                Stepped([@ EXCEPT !.rootMissing =
                           @ \/ (Len(stack[w]) = 1 /\ ~stopped[w]
                                 /\ ~Exists(wpath[w], removed))])]
  /\ UNCHANGED <<removed, mainVars, wpath, stopped>>

\* The worker takes one step of a directory's listing loop (lines 139-149);
\* the listing of a directory in failable may raise at this step.
LoopIterIn(w, failable) ==
  /\ wpc[w] = "scan"
  /\ stack[w] # <<>>
  /\ Last(stack[w]).phase = "loop"
  /\ \E fails \in (IF Last(stack[w]).path \in failable THEN BOOLEAN ELSE {FALSE}) :
       /\ WorkerBecomes(w, LoopStep(WorkerState(w), stopped[w], removed, fails))
       /\ hist' = [hist EXCEPT ![w] =
                    Stepped(IF fails
                              THEN [@ EXCEPT !.failed =
                                      Append(@, [path |-> Last(stack[w]).path,
                                                 idx |-> Last(stack[w]).idx])]
                              ELSE @)]
  /\ UNCHANGED <<removed, mainVars, wpath, stopped>>

LoopIter(w) == LoopIterIn(w, FailableDirs)

\* The same step on a filesystem whose listings never fail.
LoopIterOk(w) == LoopIterIn(w, {})

\* The environment removes TmpDir.
EnvRemove ==
  /\ ~removed
  /\ removed' = TRUE
  /\ UNCHANGED <<mainVars, queue, wpc, wpath, stopped, stack, nodes, emitted, visited, hist>>


\* --------- Treemap Widget (Viewport) ---------
NodeOf(nds, n) == nds[n[1]][n[2]]

ParentOf(nds, n) ==
  IF NodeOf(nds, n).parent = NoPath THEN NoNode ELSE <<n[1], NodeOf(nds, n).parent>>

RECURSIVE SumSizes(_, _, _)
SumSizes(nds, w, paths) ==
  IF paths = <<>> THEN 0
  ELSE nds[w][Head(paths)].size + SumSizes(nds, w, Tail(paths))

\* The <<node, depth>> pairs one paint pass draws from node n at depth k
\* (draw_node, lines 273-277 and 339-360).  The geometry is abstracted: every
\* visible child gets a rectangle, and limit stands for the depth at which the
\* blocks become too small to be decomposed (inner_width, sub_view_height
\* not above 20).
RECURSIVE DrawSet(_, _, _, _)
DrawSet(nds, n, k, limit) ==
  LET rec == NodeOf(nds, n)
      total == SumSizes(nds, n[1], rec.children)
  IN {<<n, k>>} \cup
     (IF k < limit /\ rec.is_dir /\ rec.children # <<>> /\ total > 0
        THEN UNION {DrawSet(nds, <<n[1], rec.children[i]>>, k + 1, limit) :
                      i \in 1..Len(rec.children)}
        ELSE {})

\* hue = (base + depth * 30) % 360 (lines 279-280)
DepthHue(base, depth) == (base + depth * 30) % 360

\* A variant of the assignment below that gives every node the base hue,
\* whatever its depth.
AssignHues_flat(nds, w, drawn, base) ==
  [nds EXCEPT ![w] =
    [p \in FsPaths |->
      IF nds[w][p].hue = NoHue /\ \E e \in drawn : e[1] = <<w, p>>
        THEN [nds[w][p] EXCEPT !.hue = DepthHue(base, 0)]
        ELSE nds[w][p]]]

\* node.hue after the pass, for every node of the tree w that is drawn
\* (lines 281-282).
AssignHues(nds, w, drawn, base) ==
  [nds EXCEPT ![w] =
    [p \in FsPaths |->
      IF nds[w][p].hue = NoHue /\ \E e \in drawn : e[1] = <<w, p>>
        THEN [nds[w][p] EXCEPT
                !.hue = DepthHue(base, (CHOOSE e \in drawn : e[1] = <<w, p>>)[2])]
        ELSE nds[w][p]]]

\* TreemapWidget.paintEvent (lines 259-271) with the draw_node pass it starts:
\* what the pass draws and the Node objects after it.  self.update() makes
\* the event loop run it before the next input event.
PaintPass(nds, cur, hues, limit) ==
  LET drawn == IF cur = NoNode THEN {} ELSE DrawSet(nds, cur, 0, limit)
  IN [drawn |-> drawn,
      nodes |-> IF drawn = {} THEN nds ELSE AssignHues(nds, cur[1], drawn, Last(hues))]

\* A variant of the reset below that pushes on the old hue stack.
set_root_hues_pushed(old, path) == Append(old, compute_initial_hue(path))

\* self.baseHueStack = [compute_initial_hue(node.path)] in set_root_node
\* (line 255); old is the stack it replaces.
set_root_hues(old, path) == <<compute_initial_hue(path)>>

\* A variant of the reset below that keeps the old hue stack.
go_top_hues_kept(old, path) == old

\* self.baseHueStack = [compute_initial_hue(self.root_node.path)] in go_top
\* (line 442); old is the stack it replaces.
go_top_hues(old, path) == <<compute_initial_hue(path)>>

\* A variant of the update below that does not compare with the root.
update_navigation_buttons_no_root(b, cur, root) ==
  IF cur = NoNode
    THEN [b EXCEPT !.goUp = FALSE, !.goTop = FALSE]
    ELSE [b EXCEPT !.goUp = TRUE, !.goTop = TRUE]

\* MainWindow.update_navigation_buttons (lines 567-573)
update_navigation_buttons(b, cur, root) ==
  IF cur = NoNode \/ cur = root
    THEN [b EXCEPT !.goUp = FALSE, !.goTop = FALSE]
    ELSE [b EXCEPT !.goUp = TRUE, !.goTop = TRUE]

\* The widget's maps and the Node objects after the paint pass that follows
\* a handler leaving the widget with cur, hues and sel.
Repainted(cur, hues, sel, root, limit, pcs, q) ==
  LET pp == PaintPass(nodes, cur, hues, limit)
  IN /\ rect_map' = pp.drawn
     /\ zoomable_map' = pp.drawn
     /\ nodes' = Collect(pp.nodes, RefWorkers(root, cur, sel, pp.drawn, pp.drawn), pcs, q)

\* The window is resized: the widget repaints to another depth.
Resize ==
  /\ \E limit \in 0..MaxDrawDepth :
       /\ limit # viewDepth
       /\ viewDepth' = limit
       /\ Repainted(current_node, baseHueStack, selected_node, root_node, limit, wpc, queue)
  /\ UNCHANGED <<sq, dn, removed, loaded_directory, scanning, scan_worker, nscans, root_node,
                 current_node, baseHueStack, selected_node, buttons, lastOp, pre,
                 queue, wpc, wpath, stopped, stack, emitted, visited, hist>>

\* TreemapWidget.mousePressEvent, left button (lines 393-411): the candidate
\* is the deepest drawn node under the pointer; the depth-0 rectangle covers
\* the widget, so there is none only when nothing is drawn.
MousePress ==
  /\ \E c \in (IF rect_map = {} THEN {NoNode} ELSE {e[1] : e \in rect_map}) :
       LET sel == IF c # NoNode /\ selected_node # c THEN c ELSE NoNode
       IN /\ selected_node' = sel
          /\ buttons' = [buttons EXCEPT !.run = (sel # NoNode)]
          /\ Repainted(current_node, baseHueStack, sel, root_node, viewDepth, wpc, queue)
  /\ lastOp' = "other"
  /\ pre' = NoPre
  /\ UNCHANGED <<sq, dn, removed, loaded_directory, scanning, scan_worker, nscans, root_node,
                 current_node, baseHueStack, viewDepth,
                 queue, wpc, wpath, stopped, stack, emitted, visited, hist>>

\* A variant of the hue below that pushes the current base hue again.
zoom_hue_top(hue, top, selected_depth) == top

\* new_baseHue (line 424)
zoom_hue(hue, top, selected_depth) ==
  IF hue # NoHue THEN hue ELSE DepthHue(top, selected_depth)

\* TreemapWidget.mouseDoubleClickEvent (lines 413-429): the target is the
\* deepest zoomable node whose label area holds the pointer, if any.
DoubleClick ==
  /\ Len(baseHueStack) < MaxHueDepth
  /\ \E e \in zoomable_map \cup {<<NoNode, 0>>} :
       LET target == e[1]
           selected_depth == e[2]
           rec == NodeOf(nodes, target)
           zoom == target # NoNode /\ rec.is_dir /\ rec.children # <<>>
           new_baseHue == zoom_hue(rec.hue, Last(baseHueStack), selected_depth)
           hues == Append(baseHueStack, new_baseHue)
       IN IF zoom
            THEN /\ baseHueStack' = hues
                 /\ current_node' = target
                 /\ buttons' = update_navigation_buttons(buttons, target, root_node)
                 /\ Repainted(target, hues, selected_node, root_node, viewDepth, wpc, queue)
                 /\ IF current_node # NoNode /\ ParentOf(nodes, target) = current_node
                      THEN /\ lastOp' = "zoom_child"
                           /\ pre' = [node |-> current_node, stack |-> baseHueStack]
                      ELSE /\ lastOp' = "other"
                           /\ pre' = NoPre
            ELSE /\ lastOp' = "other"
                 /\ pre' = NoPre
                 /\ UNCHANGED <<baseHueStack, current_node, buttons, nodes, rect_map,
                                zoomable_map>>
  /\ UNCHANGED <<sq, dn, removed, loaded_directory, scanning, scan_worker, nscans, root_node,
                 selected_node, viewDepth,
                 queue, wpc, wpath, stopped, stack, emitted, visited, hist>>

\* A variant of the pop below that never pops.
pop_hue_never(hues) == hues

\* if len(self.baseHueStack) > 1: self.baseHueStack.pop() (lines 434-435)
pop_hue(hues) == IF Len(hues) > 1 THEN Front(hues) ELSE hues

\* MainWindow.go_up with TreemapWidget.go_up (lines 563-565, 431-437)
GoUp ==
  /\ LET moves == current_node # NoNode /\ ParentOf(nodes, current_node) # NoNode
         cur == IF moves THEN ParentOf(nodes, current_node) ELSE current_node
         hues == IF moves THEN pop_hue(baseHueStack) ELSE baseHueStack
     IN /\ current_node' = cur
        /\ baseHueStack' = hues
        /\ buttons' = update_navigation_buttons(buttons, cur, root_node)
        /\ IF moves
             THEN Repainted(cur, hues, selected_node, root_node, viewDepth, wpc, queue)
             ELSE UNCHANGED <<nodes, rect_map, zoomable_map>>
        /\ lastOp' = IF lastOp = "zoom_child" THEN "zoom_up" ELSE "other"
        /\ pre' = IF lastOp = "zoom_child" THEN pre ELSE NoPre
  /\ UNCHANGED <<sq, dn, removed, loaded_directory, scanning, scan_worker, nscans, root_node,
                 selected_node, viewDepth,
                 queue, wpc, wpath, stopped, stack, emitted, visited, hist>>

\* MainWindow.go_top with TreemapWidget.go_top (lines 559-561, 439-444)
GoTop ==
  /\ LET acts == root_node # NoNode
         cur == IF acts THEN root_node ELSE current_node
         hues == IF acts THEN go_top_hues(baseHueStack, root_node[2]) ELSE baseHueStack
         again == lastOp \in {"go_top", "go_top_again"}
     IN /\ current_node' = cur
        /\ baseHueStack' = hues
        /\ buttons' = update_navigation_buttons(buttons, cur, root_node)
        /\ IF acts
             THEN Repainted(cur, hues, selected_node, root_node, viewDepth, wpc, queue)
             ELSE UNCHANGED <<nodes, rect_map, zoomable_map>>
        /\ lastOp' = IF ~acts THEN "other"
                     ELSE IF again THEN "go_top_again" ELSE "go_top"
        /\ pre' = IF ~acts THEN NoPre
                  ELSE IF again THEN pre ELSE [node |-> cur, stack |-> hues]
  /\ UNCHANGED <<sq, dn, removed, loaded_directory, scanning, scan_worker, nscans, root_node,
                 selected_node, viewDepth,
                 queue, wpc, wpath, stopped, stack, emitted, visited, hist>>

\* --------- Main Window with Toolbar and Status Bar ---------
\* The directories the file dialog offers.
Roots == { <<>>, <<"proc">>, <<"home">>, TmpDir }

\* The worker has visited an entry and has entries left to visit.
MidScan(w) ==
  /\ wpc[w] = "scan"
  /\ Len(visited[w]) >= 1
  /\ \E i \in 1..Len(stack[w]) :
       \/ stack[w][i].phase = "enter"
       \/ stack[w][i].idx < Len(Entries(stack[w][i].path, removed))

\* MainWindow.start_scan (lines 508-534)
start_scan(directory) ==
  LET w == nscans + 1
  IN /\ nscans < MaxScans
     /\ root_node' = NoNode
     /\ current_node' = NoNode
     /\ selected_node' = NoNode
     /\ loaded_directory' = directory
     /\ buttons' = [reload |-> FALSE, goTop |-> FALSE, goUp |-> FALSE, run |-> FALSE]
     /\ scanning' = TRUE
     /\ nscans' = w
     /\ scan_worker' = w
     /\ wpc' = [wpc EXCEPT ![w] = "start"]
     /\ wpath' = [wpath EXCEPT ![w] = directory]
     /\ stopped' = [stopped EXCEPT ![w] = FALSE]
     /\ Repainted(NoNode, baseHueStack, NoNode, NoNode, viewDepth, wpc, queue)
     /\ lastOp' = "other"
     /\ pre' = NoPre
     /\ UNCHANGED <<sq, dn, removed, baseHueStack, viewDepth, queue, stack, emitted, visited, hist>>

\* MainWindow.open_or_stop, not scanning (lines 503-506): the dialog returns
\* an existing directory.
Open ==
  /\ ~scanning
  /\ \E directory \in Roots :
       /\ Exists(directory, removed)
       /\ start_scan(directory)

\* MainWindow.open_or_stop, scanning (lines 499-502), with ScanWorker.stop.
Stop ==
  /\ scanning
  /\ scan_worker # 0
  /\ stopped' = [stopped EXCEPT ![scan_worker] = TRUE]
  /\ hist' = [hist EXCEPT ![scan_worker] =
                IF @.stopReq THEN [@ EXCEPT !.stopMid = @ \/ MidScan(scan_worker)]
                ELSE [@ EXCEPT !.stopMid = @ \/ MidScan(scan_worker),
                               !.stopReq = TRUE,
                               !.visitedAtStop = Len(visited[scan_worker]),
                               !.openAtStop = OpenDirs(scan_worker),
                               !.depthAtStop = Len(stack[scan_worker])]]
  /\ lastOp' = "other"
  /\ pre' = NoPre
  /\ UNCHANGED <<sq, dn, removed, loaded_directory, scanning, scan_worker, nscans, root_node,
                 current_node, baseHueStack, selected_node, rect_map, zoomable_map,
                 viewDepth, buttons, queue, wpc, wpath, stack, nodes, emitted, visited>>

\* A variant of the guard below that forgets the scanning flag.
reload_guard_no_flag == loaded_directory # NoPath

\* if self.loaded_directory and not self.scanning (line 556)
reload_guard == loaded_directory # NoPath /\ ~scanning

\* MainWindow.reload_directory (lines 555-557)
Reload ==
  /\ reload_guard
  /\ start_scan(loaded_directory)

\* MainWindow.scan_finished (lines 536-541) with TreemapWidget.set_root_node
\* (lines 252-257).
scan_finished(w) ==
  LET root == <<w, wpath[w]>>
      hues == set_root_hues(baseHueStack, root[2])
  IN /\ scanning' = FALSE
     /\ root_node' = root
     /\ current_node' = root
     /\ baseHueStack' = hues
     /\ selected_node' = NoNode
     /\ buttons' = update_navigation_buttons([buttons EXCEPT !.reload = TRUE], root, root)
     /\ Repainted(root, hues, NoNode, root, viewDepth, wpc', queue')
     /\ lastOp' = "scan_finished"

\* MainWindow.scan_cancelled and scan_error (lines 543-553)
scan_ended(w) ==
  /\ scanning' = FALSE
  /\ buttons' = [buttons EXCEPT !.reload = (loaded_directory # NoPath)]
  /\ nodes' = Collect(nodes, RefWorkers(root_node, current_node, selected_node,
                                        rect_map, zoomable_map), wpc', queue')
  /\ lastOp' = "other"
  /\ UNCHANGED <<root_node, current_node, baseHueStack, selected_node, rect_map,
                 zoomable_map>>

\* The main thread's event loop delivers the next queued worker signal to
\* the slot connected in start_scan (lines 527-532).
Deliver ==
  /\ queue # <<>>
  /\ LET m == Head(queue)
     IN /\ queue' = Tail(queue)
        /\ wpc' = [wpc EXCEPT ![m.w] = "deleted"]
        /\ emitted' = [emitted EXCEPT ![m.w] = <<>>]
        /\ visited' = [visited EXCEPT ![m.w] = <<>>]
        /\ hist' = [hist EXCEPT ![m.w] = NoHist]
        /\ IF m.sig = "finished" THEN scan_finished(m.w) ELSE scan_ended(m.w)
  /\ pre' = NoPre
  /\ UNCHANGED <<sq, dn, removed, loaded_directory, scan_worker, nscans, viewDepth,
                 wpath, stopped, stack>>

Next ==
  \/ Open
  \/ Stop
  \/ Reload
  \/ Deliver
  \/ Resize
  \/ MousePress
  \/ DoubleClick
  \/ GoUp
  \/ GoTop
  \/ EnvRemove
  \/ \E w \in Workers : RunStart(w)
  \/ \E w \in Workers : Visit(w)
  \/ \E w \in Workers : LoopIter(w)

\* The whole program.
Spec == Init /\ [][Next]_vars

\* The program while the user leaves the treemap alone: every scan, with
\* stops, listing failures and the removal of TmpDir.
ScanNext ==
  \/ Open
  \/ Stop
  \/ Reload
  \/ Deliver
  \/ EnvRemove
  \/ \E w \in Workers : RunStart(w)
  \/ \E w \in Workers : Visit(w)
  \/ \E w \in Workers : LoopIter(w)

ScanSpec == Init /\ [][ScanNext]_vars

\* The program while scans run undisturbed (no stop, no listing failure, no
\* removal): every navigation over the completely scanned trees.
NavNext ==
  \/ Open
  \/ Reload
  \/ Deliver
  \/ Resize
  \/ MousePress
  \/ DoubleClick
  \/ GoUp
  \/ GoTop
  \/ \E w \in Workers : RunStart(w)
  \/ \E w \in Workers : Visit(w)
  \/ \E w \in Workers : LoopIterOk(w)

NavSpec == Init /\ [][NavNext]_vars

\* The smallest inner width and child-area height whose block is decomposed
\* (line 339).
MIN_SUB_VIEW == 20

\* --------- Squarified Treemap Algorithm ---------
\* Python's floats are modelled as exact rationals <<numerator, denominator>>
\* in lowest terms with a positive denominator; float('inf') is <<1, 0>>.
RECURSIVE Gcd(_, _)
Gcd(a, b) == IF b = 0 THEN a ELSE Gcd(b, a % b)

Abs(a) == IF a < 0 THEN -a ELSE a

\* n / d for integers n and d # 0.
Q(n, d) ==
  LET g == Gcd(Abs(n), Abs(d))
      s == IF d < 0 THEN -1 ELSE 1
  IN <<s * (Abs(n) \div g) * (IF n < 0 THEN -1 ELSE 1), Abs(d) \div g>>

QInt(i) == <<i, 1>>

INF == <<1, 0>>

QAdd(a, b) == Q(a[1] * b[2] + b[1] * a[2], a[2] * b[2])

QSub(a, b) == Q(a[1] * b[2] - b[1] * a[2], a[2] * b[2])

QMul(a, b) == Q(a[1] * b[1], a[2] * b[2])

\* a / b for b # 0 (Python raises ZeroDivisionError for b = 0).
QDiv(a, b) == Q(a[1] * b[2], a[2] * b[1])

QLe(a, b) == a[1] * b[2] <= b[1] * a[2]

QLt(a, b) == a[1] * b[2] < b[1] * a[2]

QMax(a, b) == IF QLe(a, b) THEN b ELSE a

RECURSIVE QSum(_)
QSum(row) == IF row = <<>> THEN QInt(0) ELSE QAdd(Head(row), QSum(Tail(row)))

\* worst_ratio (lines 157-168)
worst_ratio(row, length) ==
  LET total == QSum(row)
      side == QDiv(total, length)
      s2 == QMul(side, side)
      ratio(r) == QMax(QDiv(s2, r), QDiv(r, s2))
      RECURSIVE worst(_, _)
      worst(i, w) ==
        IF i > Len(row) THEN w
        ELSE IF row[i] = QInt(0) THEN INF
        ELSE worst(i + 1, QMax(w, ratio(row[i])))
  IN IF length = QInt(0) \/ total = QInt(0) THEN INF ELSE worst(1, QInt(0))

\* A variant of the loop below that adds an area only when it lowers the
\* worst ratio.
RECURSIVE grow_row_strict(_, _, _)
grow_row_strict(row, areas, length) ==
  IF areas # <<>>
     /\ QLt(worst_ratio(Append(row, Head(areas)), length), worst_ratio(row, length))
    THEN grow_row_strict(Append(row, Head(areas)), Tail(areas), length)
    ELSE [row |-> row, areas |-> areas]

\* The inner while loop of squarify (lines 176-179, 190-193): the row and
\* the pending areas when the row is closed.
RECURSIVE grow_row(_, _, _)
grow_row(row, areas, length) ==
  IF areas # <<>>
     /\ QLe(worst_ratio(Append(row, Head(areas)), length), worst_ratio(row, length))
    THEN grow_row(Append(row, Head(areas)), Tail(areas), length)
    ELSE [row |-> row, areas |-> areas]

\* A variant of the extent below that forgets to divide by the side.
row_extent_unscaled(total_row, length) == total_row

\* row_height = total_row / width, col_width = total_row / height
\* (lines 181, 195)
row_extent(total_row, length) == QDiv(total_row, length)

\* The rectangles <<x, y, w, h>> of one closed row, laid along the width
\* from rx (lines 182-186) or along the height from ry (lines 196-200).
RECURSIVE row_rects(_, _, _, _, _)
row_rects(row, rx, ry, extent, horizontal) ==
  IF row = <<>> THEN <<>>
  ELSE LET len == QDiv(Head(row), extent)
       IN IF horizontal
            THEN << <<rx, ry, len, extent>> >>
                 \o row_rects(Tail(row), QAdd(rx, len), ry, extent, horizontal)
            ELSE << <<rx, ry, extent, len>> >>
                 \o row_rects(Tail(row), rx, QAdd(ry, len), extent, horizontal)

\* The state of a call squarify(areas, x, y, width, height) at its first
\* evaluation of "while areas" (lines 170-173).
SquarifyCall(areas, x, y, width, height) ==
  [pc |-> IF areas = <<>> THEN "returned" ELSE "loop",
   args |-> [areas |-> areas, x |-> x, y |-> y, width |-> width, height |-> height],
   areas |-> areas, x |-> x, y |-> y, width |-> width, height |-> height,
   rects |-> <<>>, rows |-> <<>>]

\* One iteration of "while areas" (lines 174-202) from the call state c.
SquarifyIter(c) ==
  LET horizontal == QLe(c.height, c.width)
      length == IF horizontal THEN c.width ELSE c.height
      g == grow_row(<<Head(c.areas)>>, Tail(c.areas), length)
      total_row == QSum(g.row)
      extent == row_extent(total_row, length)
      pc == IF g.areas = <<>> THEN "returned" ELSE "loop"
      \* history: the remaining rectangle, the side the ratios were computed
      \* against, the closed row and the areas left pending
      closed == [width |-> c.width, height |-> c.height, length |-> length,
                 row |-> g.row, pending |-> g.areas]
  IN IF length = QInt(0) \/ extent = QInt(0)
       THEN [c EXCEPT !.pc = "raised"]
     ELSE IF horizontal
       THEN [c EXCEPT !.pc = pc, !.areas = g.areas,
                      !.rects = @ \o row_rects(g.row, c.x, c.y, extent, TRUE),
                      !.y = QAdd(@, extent), !.height = QSub(@, extent),
                      !.rows = Append(@, closed)]
     ELSE [c EXCEPT !.pc = pc, !.areas = g.areas,
                    !.rects = @ \o row_rects(g.row, c.x, c.y, extent, FALSE),
                    !.x = QAdd(@, extent), !.width = QSub(@, extent),
                    !.rows = Append(@, closed)]

programVars ==
  <<removed, loaded_directory, scanning, scan_worker, nscans, root_node,
    current_node, baseHueStack, selected_node, rect_map, zoomable_map,
    viewDepth, buttons, queue, wpc, wpath, stopped, stack, nodes, emitted,
    visited, hist, lastOp, pre>>

\* squarify runs one iteration of its loop.
SquarifyRow ==
  /\ sq.pc = "loop"
  /\ sq' = SquarifyIter(sq)
  /\ UNCHANGED <<programVars, dn>>

\* The lists of areas squarify is called with: up to MaxAreas areas.
AreaValues == {0, 1, 2, 4}

RECURSIVE SeqsUpTo(_, _)
SeqsUpTo(S, n) ==
  IF n = 0 THEN {<<>>}
  ELSE LET shorter == SeqsUpTo(S, n - 1)
       IN shorter \cup {Append(t, v) : t \in {u \in shorter : Len(u) = n - 1}, v \in S}

AreaLists == {[i \in DOMAIN t |-> QInt(t[i])] : t \in SeqsUpTo(AreaValues, MaxAreas)}

\* The sides of the rectangles squarify is called with.
SideValues == {1, 2, 3, 4}

\* squarify([100, 100], x=0, y=0, w=20, h=10)
ScenarioB ==
  SquarifyCall(<<QInt(100), QInt(100)>>, QInt(0), QInt(0), QInt(20), QInt(10))

SquarifyInit ==
  /\ ProgramInit
  /\ dn = NoCall
  /\ sq \in {SquarifyCall(a, QInt(x), QInt(0), QInt(w), QInt(h)) :
               a \in AreaLists, x \in {0, 1}, w \in SideValues, h \in SideValues}
            \cup {ScenarioB}

\* Calls of squarify on every list of areas and rectangle of the sets above.
SquarifySpec == SquarifyInit /\ [][SquarifyRow]_vars

\* --------- draw_node: the layout of one block ---------
\* The chrome of a block of inner height inner_height when the font's height
\* is L (lines 299-325).
chrome(inner_height, L) ==
  LET remaining == inner_height
      half(padding_total) == QDiv(padding_total, QInt(2))
  IN IF QLe(QInt(2 + L + 2 + 2), inner_height)
       THEN [top_padding |-> QInt(2), label_height |-> QInt(L), spacing |-> QInt(2),
             bottom_padding |-> QInt(2),
             sub_view_height |-> QSub(inner_height, QInt(L + 6))]
     ELSE IF QLe(QInt(L + 2), remaining)
       THEN [top_padding |-> half(QSub(remaining, QInt(L + 2))),
             label_height |-> QInt(L), spacing |-> QInt(2),
             bottom_padding |-> half(QSub(remaining, QInt(L + 2))),
             sub_view_height |-> QInt(0)]
     ELSE IF QLe(QInt(L), remaining)
       THEN [top_padding |-> half(QSub(remaining, QInt(L))),
             label_height |-> QInt(L), spacing |-> QInt(0),
             bottom_padding |-> half(QSub(remaining, QInt(L))),
             sub_view_height |-> QInt(0)]
     ELSE [top_padding |-> QInt(0), label_height |-> remaining, spacing |-> QInt(0),
           bottom_padding |-> QInt(0), sub_view_height |-> QInt(0)]

\* sorted(node.children, key=lambda n: n.size, reverse=True) (line 340), on
\* the children's positions in node.children: a stable sort, so children of
\* equal size keep their order.
RECURSIVE insert_by_size(_, _, _)
insert_by_size(sizes, sorted, i) ==
  IF sorted = <<>> THEN <<i>>
  ELSE IF sizes[Head(sorted)] >= sizes[i]
    THEN <<Head(sorted)>> \o insert_by_size(sizes, Tail(sorted), i)
  ELSE <<i>> \o sorted

RECURSIVE sorted_upto(_, _)
sorted_upto(sizes, n) ==
  IF n = 0 THEN <<>> ELSE insert_by_size(sizes, sorted_upto(sizes, n - 1), n)

sorted_children(sizes) == sorted_upto(sizes, Len(sizes))

\* sum(child.size for child in children) over the positions in children
RECURSIVE sum_sizes(_, _)
sum_sizes(sizes, children) ==
  IF children = <<>> THEN 0
  ELSE sizes[Head(children)] + sum_sizes(sizes, Tail(children))

\* EPSILON = 1e-6 (line 350)
EPSILON == Q(1, 1000000)

\* A variant of the guard below that only asks for a non-empty child area.
usable_sub_view_nonempty(inner_width, sub_view_height) ==
  QLt(QInt(0), inner_width) /\ QLt(QInt(0), sub_view_height)

\* inner_width > 20 and sub_view_height > 20 (line 339)
usable_sub_view(inner_width, sub_view_height) ==
  QLt(QInt(MIN_SUB_VIEW), inner_width) /\ QLt(QInt(MIN_SUB_VIEW), sub_view_height)

\* scaledAreas (lines 352-355)
scaled_areas(sizes, visible, visibleTotal, visArea) ==
  IF visibleTotal <= 0
    THEN [i \in DOMAIN visible |-> QDiv(visArea, QInt(Len(visible)))]
    ELSE [i \in DOMAIN visible |->
            QMul(QDiv(IF sizes[visible[i]] > 0 THEN QInt(sizes[visible[i]]) ELSE EPSILON,
                      QInt(visibleTotal)),
                 visArea)]

\* othersRect (lines 362-372)
others_rect(sub_view_rect, visibleTotal, total) ==
  LET fraction == Q(visibleTotal, total)
      rest == QSub(QInt(1), fraction)
      x == sub_view_rect[1]
      y == sub_view_rect[2]
      w == sub_view_rect[3]
      h == sub_view_rect[4]
  IN IF QLe(h, w)
       THEN <<x, QAdd(y, QMul(h, fraction)), w, QMul(h, rest)>>
       ELSE <<QAdd(x, QMul(w, fraction)), y, QMul(w, rest), h>>

\* The block itself in rect_map and zoomable_map entries.
Self == 0

\* The state of a call draw_node(painter, node, rect, 0) at its first line,
\* for a node with the given kind and children sizes (in node.children
\* order) and a font of height L.
DrawCall(L, rect, is_dir, sizes) ==
  [pc |-> "start", L |-> L, rect |-> rect, is_dir |-> is_dir, sizes |-> sizes,
   rect_map |-> <<>>, zoomable_map |-> <<>>, chrome |-> chrome(QInt(0), L),
   inner_width |-> QInt(0), sub_view_rect |-> <<QInt(0), QInt(0), QInt(0), QInt(0)>>,
   visible |-> <<>>, othersSize |-> 0, total |-> 0, others |-> <<>>]

\* draw_node from its first line to the call of squarify (lines 273-357),
\* from the call state d: the state it reaches, and the call of squarify it
\* makes, if any.
DrawEnter(d) ==
  LET rect == d.rect
      inner_x == QAdd(rect[1], QInt(1 + 2))
      inner_width == QSub(rect[3], QInt(1 + 1 + 2 * 2))
      inner_y == QAdd(rect[2], QInt(1))
      inner_height == QSub(rect[4], QInt(1 + 1))
      c == chrome(inner_height, d.L)
      sub_view_rect ==
        <<inner_x, QAdd(QAdd(QAdd(inner_y, c.top_padding), c.label_height), c.spacing),
          inner_width, c.sub_view_height>>
      hasSub == QLt(QInt(0), c.sub_view_height)
      children == sorted_children(d.sizes)
      total == sum_sizes(d.sizes, children)
      over == Len(children) > MaxVisible
      visible == IF over THEN SubSeq(children, 1, MaxVisible) ELSE children
      othersSize == IF over
                      THEN sum_sizes(d.sizes, SubSeq(children, MaxVisible + 1, Len(children)))
                      ELSE 0
      visibleTotal == sum_sizes(d.sizes, visible)
      visArea == QMul(sub_view_rect[3], sub_view_rect[4])
      scaledAreas == scaled_areas(d.sizes, visible, visibleTotal, visArea)
      d1 == [d EXCEPT !.rect_map = Append(@, [rect |-> rect, who |-> Self, depth |-> 0]),
                      !.chrome = c, !.inner_width = inner_width,
                      !.zoomable_map =
                        IF hasSub
                          THEN Append(@, [full |-> rect, inner |-> sub_view_rect,
                                          who |-> Self, depth |-> 0])
                          ELSE @,
                      !.sub_view_rect = IF hasSub THEN sub_view_rect ELSE @]
  IN IF QLe(rect[3], QInt(0)) \/ QLe(rect[4], QInt(0))
       THEN [dn |-> [d EXCEPT !.pc = "done"], sq |-> NoCall]
     ELSE IF hasSub /\ d.is_dir /\ d.sizes # <<>>
             /\ usable_sub_view(inner_width, c.sub_view_height) /\ total > 0
       THEN [dn |-> [d1 EXCEPT !.pc = "squarify", !.visible = visible,
                               !.othersSize = othersSize, !.total = total],
             sq |-> SquarifyCall(scaledAreas, sub_view_rect[1], sub_view_rect[2],
                                 sub_view_rect[3], sub_view_rect[4])]
     ELSE [dn |-> [d1 EXCEPT !.pc = "done"], sq |-> NoCall]

\* draw_node after squarify returned rects (lines 358-377): the calls of
\* draw_node for the visible children, of which only the first lines are
\* followed (lines 274-277), and the others block.
DrawChildren(d, rects) ==
  LET n == IF Len(rects) < Len(d.visible) THEN Len(rects) ELSE Len(d.visible)
      RECURSIVE placed(_)
      placed(i) ==
        IF i > n THEN <<>>
        ELSE (IF QLe(rects[i][3], QInt(0)) \/ QLe(rects[i][4], QInt(0)) THEN <<>>
              ELSE <<[rect |-> rects[i], who |-> d.visible[i], depth |-> 1]>>)
             \o placed(i + 1)
      visibleTotal == sum_sizes(d.sizes, d.visible)
      sub == d.sub_view_rect
  IN [d EXCEPT !.pc = "done",
               !.rect_map = @ \o placed(1),
               !.others =
                 IF d.othersSize > 0 /\ QLt(QInt(5), sub[3]) /\ QLt(QInt(5), sub[4])
                   THEN <<others_rect(sub, visibleTotal, d.total)>>
                   ELSE <<>>]

\* draw_node runs up to its call of squarify, or returns.
DrawBlock ==
  /\ dn.pc = "start"
  /\ dn' = DrawEnter(dn).dn
  /\ sq' = DrawEnter(dn).sq
  /\ UNCHANGED programVars

\* squarify has returned: draw_node draws the children and the others block.
DrawRest ==
  /\ dn.pc = "squarify"
  /\ sq.pc = "returned"
  /\ dn' = DrawChildren(dn, sq.rects)
  /\ sq' = NoCall
  /\ UNCHANGED programVars

\* The font heights fm.height() returns.
LabelHeights == {10, 13}

\* The widths and heights of the blocks draw_node is called with.
BlockWidths == {0, 26, 27, 40}

BlockHeights == (0..22) \cup {38, 39, 41, 42, 50}

\* The sizes of the children of a directory.
SizeValues == {0, 1, 2}

\* Lists of children sizes: up to MaxChildren children.  Lists that put a
\* zero-sized child next to larger ones among the visible children are left
\* out: squarify's arithmetic on an EPSILON area needs integers beyond TLC's.
ChildSizes ==
  {t \in SeqsUpTo(SizeValues, MaxChildren) :
     LET vis == SubSeq(sorted_children(t), 1,
                       IF Len(t) > MaxVisible THEN MaxVisible ELSE Len(t))
     IN (\A i \in DOMAIN t : t[i] = 0) \/ (\A i \in DOMAIN vis : t[vis[i]] > 0)}

LayoutInit ==
  /\ ProgramInit
  /\ sq = NoCall
  /\ dn \in {DrawCall(L, <<QInt(0), QInt(0), QInt(w), QInt(h)>>, TRUE, t) :
               L \in LabelHeights, w \in BlockWidths, h \in BlockHeights,
               t \in ChildSizes}
            \cup
            {DrawCall(L, <<QInt(0), QInt(0), QInt(w), QInt(h)>>, FALSE, <<>>) :
               L \in LabelHeights, w \in BlockWidths, h \in BlockHeights}

LayoutNext ==
  \/ DrawBlock
  \/ SquarifyRow
  \/ DrawRest

\* Calls of draw_node on one block, for every block of the sets above.
LayoutSpec == LayoutInit /\ [][LayoutNext]_vars

\* ------------------------------------------------------------ properties
HasSig(w, sig) == \E i \in 1..Len(emitted[w]) : emitted[w][i].sig = sig

\* The paths of the progress notifications worker w has emitted, in order.
ProgressPaths(w) ==
  LET ps == SelectSeq(emitted[w], LAMBDA e : e.msg = "Scanning: ")
  IN [i \in 1..Len(ps) |-> ps[i].path]

\* path equals or lies under an excluded prefix.
UnderExcludedPrefix(path) ==
  \E i \in 1..Len(EXCLUDED_DIRS) : IsPrefix(EXCLUDED_DIRS[i], path)

\* The size scan_directory gives the Node of path in an undisturbed scan of
\* root with the exclusion list dirs (lines 113-154 run to completion).
RECURSIVE scan_size(_, _, _)
scan_size(dirs, path, root) ==
  LET RECURSIVE sum(_)
      sum(es) == IF es = <<>> THEN 0
                 ELSE scan_size(dirs, Head(es), root) + sum(Tail(es))
  IN IF path \in FsDirs /\ path # root /\ is_excluded_in(dirs, path) THEN 0
     ELSE IF path \in FsDirs THEN sum(Entries(path, FALSE))
     ELSE LstatSize(path)

\* C1: if cancellation is requested in mid-scan (the worker has visited an
\* entry and has entries left to visit), the scan never emits finished.
C1_CancelMidScanNeverFinishes ==
  \A w \in Workers : hist[w].stopMid => ~HasSig(w, "finished")

\* C2: a scan whose root path does not exist never emits finished.
C2_MissingRootNeverFinishes ==
  \A w \in Workers : hist[w].rootMissing => ~HasSig(w, "finished")

\* C3: every Directory node has size equal to the sum of the sizes of the
\* nodes in its children list, and its size and children are set only once
\* the calls for all of its children have returned: a directory whose call
\* is still on the stack has size 0 and no children, and no child of any
\* node is a directory whose call is still on the stack.
C3_DirSizeIsSumOfChildren ==
  \A w \in Workers : \A p \in FsPaths :
    LET rec == nodes[w][p]
        open == {stack[w][i].path : i \in 1..Len(stack[w])}
    IN (rec.made /\ rec.is_dir) =>
         /\ rec.size = SumSizes(nodes, w, rec.children)
         /\ p \in open => (rec.size = 0 /\ rec.children = <<>>)
         /\ \A i \in 1..Len(rec.children) :
              nodes[w][rec.children[i]].made /\ rec.children[i] \notin open

\* A finished scan returned /home listed part-way (two of three entries).
C3_Witness ==
  \E w \in Workers :
    /\ HasSig(w, "finished")
    /\ nodes[w][<<"home">>].children = << <<"home", "a">>, <<"home", "d">> >>
    /\ nodes[w][<<"home">>].size = 3

\* C4: at most one scan worker is running at any time.
C4_AtMostOneScanRuns ==
  Cardinality({w \in Workers : wpc[w] \in {"start", "scan"}}) <= 1

\* A second scan runs after the first one was stopped and has ended.
C4_Witness ==
  /\ nscans = 2
  /\ wpc[2] = "scan"
  /\ stopped[1]
  /\ wpc[1] = "deleted"

\* C5: a scan's progress notifications are emitted in the order the entries
\* are visited (the visited paths are the notified paths, but for the one
\* entry whose visit a cancellation cut short); a scan emits at most one of
\* finished, cancelled, error, emits nothing after it, and has emitted
\* exactly one of them when it is done.
C5_SignalOrder ==
  \A w \in Workers :
    LET e == emitted[w]
        ends == {i \in 1..Len(e) : e[i].sig \in Terminal}
        ps == ProgressPaths(w)
    IN /\ Cardinality(ends) <= 1
       /\ ends # {} => ends = {Len(e)}
       /\ wpc[w] = "done" <=> ends # {}
       /\ Len(visited[w]) <= Len(ps)
       /\ Len(ps) <= Len(visited[w]) + 1
       /\ SubSeq(ps, 1, Len(visited[w])) = visited[w]

\* A scan has finished after at least three progress notifications.
C5_Witness ==
  \E w \in Workers :
    /\ wpc[w] = "done"
    /\ HasSig(w, "finished")
    /\ Len(ProgressPaths(w)) >= 3

\* C6: every directory below the scan root whose path equals or lies under
\* an excluded prefix, once recorded, is a Directory node with size 0 and no
\* children; it is never opened for listing, and nothing beneath it is
\* visited or notified.
C6_ExcludedDirIsEmptyLeaf ==
  \A w \in Workers : \A p \in FsDirs :
    (nodes[w][p].made /\ p # wpath[w] /\ UnderExcludedPrefix(p)) =>
      /\ nodes[w][p].is_dir
      /\ nodes[w][p].size = 0
      /\ nodes[w][p].children = <<>>
      /\ \A i \in 1..Len(stack[w]) : stack[w][i].path # p
      /\ \A i \in 1..Len(emitted[w]) : ~IsStrictPrefix(p, emitted[w][i].path)
      /\ \A i \in 1..Len(visited[w]) : ~IsStrictPrefix(p, visited[w][i])

\* A finished scan of / recorded /proc and summed /home in full.
C6_Witness ==
  \E w \in Workers :
    /\ wpath[w] = <<>>
    /\ HasSig(w, "finished")
    /\ nodes[w][<<"proc">>].made
    /\ nodes[w][<<"home">>].size = 4

\* C7: an undisturbed scan whose root matches an excluded prefix returns
\* the tree that the same scan returns with an empty exclusion list.
C7_ExcludedRootScannedInFull ==
  \A w \in Workers :
    (HasSig(w, "finished") /\ ~stopped[w] /\ UnderExcludedPrefix(wpath[w])) =>
      \A p \in FsPaths :
        IsPrefix(wpath[w], p) =>
          nodes[w][p].made /\ nodes[w][p].size = scan_size(<<>>, p, wpath[w])

\* C8: a call of go_top that directly follows a call of go_top on a loaded
\* tree leaves current_node and the hue stack as the first call left them:
\* current_node is root_node and the hue stack is the single hue derived
\* from root_node's path.
C8_GoTopIdempotent ==
  lastOp = "go_top_again" =>
    /\ current_node = pre.node
    /\ baseHueStack = pre.stack
    /\ current_node = root_node
    /\ baseHueStack = <<compute_initial_hue(root_node[2])>>

\* go_top has been called twice in a row.
C8_Witness == lastOp = "go_top_again" /\ root_node # NoNode

\* C9: go_up right after a zoom into a child of current_node restores
\* current_node and the hue stack to what they were before the zoom.
C9_ZoomGoUpRoundTrip ==
  lastOp = "zoom_up" => (current_node = pre.node /\ baseHueStack = pre.stack)

\* go_up has been called right after a zoom into a child.
C9_Witness == lastOp = "zoom_up" /\ pre.node # NoNode

\* C10: when a scan has finished, current_node is root_node, the root of
\* the tree of the scan just started, the hue stack is the single hue
\* derived from its path, and nothing is selected.
C10_FinishedScanResetsNavigation ==
  lastOp = "scan_finished" =>
    /\ root_node = <<scan_worker, loaded_directory>>
    /\ NodeOf(nodes, root_node).made
    /\ NodeOf(nodes, root_node).parent = NoPath
    /\ current_node = root_node
    /\ baseHueStack = <<compute_initial_hue(loaded_directory)>>
    /\ selected_node = NoNode

\* A second scan has finished.
C10_Witness == lastOp = "scan_finished" /\ nscans = 2

\* The area of a rectangle <<x, y, w, h>>.
RectArea(r) == QMul(r[3], r[4])

RectAreas(rects) == [i \in DOMAIN rects |-> RectArea(rects[i])]

\* Rectangle r lies within the rectangle of origin x, y and size w, h.
RectWithin(r, x, y, w, h) ==
  /\ QLe(x, r[1])
  /\ QLe(y, r[2])
  /\ QLe(QAdd(r[1], r[3]), QAdd(x, w))
  /\ QLe(QAdd(r[2], r[4]), QAdd(y, h))

\* Rectangles a and b share interior points.
RectsOverlap(a, b) ==
  /\ QLt(a[1], QAdd(b[1], b[3]))
  /\ QLt(b[1], QAdd(a[1], a[3]))
  /\ QLt(a[2], QAdd(b[2], b[4]))
  /\ QLt(b[2], QAdd(a[2], a[4]))

\* squarify has returned from a call with a non-empty list of positive
\* areas and a rectangle of positive width and height.
SquarifyReturnedValid ==
  /\ sq.pc = "returned"
  /\ sq.args.areas # <<>>
  /\ \A i \in DOMAIN sq.args.areas : QLt(QInt(0), sq.args.areas[i])
  /\ QLt(QInt(0), sq.args.width)
  /\ QLt(QInt(0), sq.args.height)

\* C11 as stated: for every non-empty list of positive areas and rectangle
\* of positive width and height, squarify returns one rectangle per area, in
\* input order, with areas proportional to the inputs and a total area equal
\* to the area of the given rectangle.
C11_SquarifyFillsRectangle ==
  SquarifyReturnedValid =>
    /\ Len(sq.rects) = Len(sq.args.areas)
    /\ \A i \in DOMAIN sq.rects :
         QMul(RectArea(sq.rects[i]), sq.args.areas[1])
           = QMul(RectArea(sq.rects[1]), sq.args.areas[i])
    /\ QSum(RectAreas(sq.rects)) = QMul(sq.args.width, sq.args.height)

\* C11, amended: for every non-empty list of positive areas and rectangle
\* of positive width and height, squarify returns one rectangle of positive
\* width and height per area, in input order, each with the area of its
\* input; when the inputs sum to the area of the given rectangle, the total
\* area equals that area and the rectangles lie within the given rectangle
\* without overlapping; squarify([100,100],0,0,20,10) returns (0,0,10,10) and
\* (10,0,10,10).
C11_SquarifyAreasEqualInputs ==
  SquarifyReturnedValid =>
    /\ Len(sq.rects) = Len(sq.args.areas)
    /\ \A i \in DOMAIN sq.rects :
         /\ RectArea(sq.rects[i]) = sq.args.areas[i]
         /\ QLt(QInt(0), sq.rects[i][3])
         /\ QLt(QInt(0), sq.rects[i][4])
    /\ QSum(sq.args.areas) = QMul(sq.args.width, sq.args.height) =>
         /\ QSum(RectAreas(sq.rects)) = QMul(sq.args.width, sq.args.height)
         /\ \A i \in DOMAIN sq.rects :
              RectWithin(sq.rects[i], sq.args.x, sq.args.y, sq.args.width, sq.args.height)
         /\ \A i, j \in DOMAIN sq.rects :
              i # j => ~RectsOverlap(sq.rects[i], sq.rects[j])
    /\ sq.args = ScenarioB.args =>
         sq.rects = << <<QInt(0), QInt(0), QInt(10), QInt(10)>>,
                       <<QInt(10), QInt(0), QInt(10), QInt(10)>> >>

\* squarify has returned two rectangles from the call of scenario B.
C11_Witness ==
  /\ sq.pc = "returned"
  /\ sq.args = ScenarioB.args
  /\ Len(sq.rects) = 2

\* draw_node has returned from a call on a directory with children, a
\* rectangle of positive width and height and a usable child area.
LaidOutDirectory ==
  /\ dn.pc = "done"
  /\ dn.is_dir
  /\ dn.sizes # <<>>
  /\ QLt(QInt(0), dn.rect[3])
  /\ QLt(QInt(0), dn.rect[4])
  /\ QLt(QInt(MIN_SUB_VIEW), dn.inner_width)
  /\ QLt(QInt(MIN_SUB_VIEW), dn.chrome.sub_view_height)

\* The children draw_node has placed, in the order it placed them.
PlacedChildren ==
  LET ps == SelectSeq(dn.rect_map, LAMBDA e : e.depth = 1)
  IN [i \in DOMAIN ps |-> ps[i].who]

\* Child a comes before child b in descending size order, ties in input order.
LargerFirst(sizes, a, b) == sizes[a] > sizes[b] \/ (sizes[a] = sizes[b] /\ a < b)

\* C12: laying out a directory with more children than the cap and a usable
\* child area places exactly the cap's number of children, the largest ones,
\* in descending size order with ties in input order, and one others block
\* whose share of the child area is the excluded children's share of the
\* total size; with no more children than the cap there is no others block.
C12_CountCapAndOthers ==
  LaidOutDirectory =>
    LET placed == PlacedChildren
        all == DOMAIN dn.sizes
        in == {placed[i] : i \in DOMAIN placed}
        excluded == all \ in
        RECURSIVE sum(_)
        sum(S) == IF S = {} THEN 0
                  ELSE LET c == CHOOSE c \in S : TRUE
                       IN dn.sizes[c] + sum(S \ {c})
    IN IF Len(dn.sizes) > MaxVisible
         THEN /\ Len(placed) = MaxVisible
              /\ Cardinality(in) = MaxVisible
              /\ \A i, j \in DOMAIN placed :
                   i < j => LargerFirst(dn.sizes, placed[i], placed[j])
              /\ \A a \in in : \A b \in excluded : LargerFirst(dn.sizes, a, b)
              /\ Len(dn.others) = 1
              /\ QMul(RectArea(dn.others[1]), QInt(sum(all)))
                   = QMul(RectArea(dn.sub_view_rect), QInt(sum(excluded)))
         ELSE dn.others = <<>>

\* C13: draw_node on a rectangle with non-positive width or height records
\* no placement and lays out nothing; and a block whose child area is not
\* more than 20 units wide or not more than 20 units high (the child area is
\* 6 units narrower than the block and 8 units plus the label lower) never
\* lays out a child, even when the node is a directory with children.
C13_DegenerateAndSmallBlocks ==
  dn.pc \in {"squarify", "done"} =>
    LET w == dn.rect[3]
        h == dn.rect[4]
        laysOut == \/ dn.pc = "squarify"
                   \/ sq # NoCall
                   \/ \E i \in DOMAIN dn.rect_map : dn.rect_map[i].depth > 0
                   \/ dn.others # <<>>
    IN /\ (QLe(w, QInt(0)) \/ QLe(h, QInt(0))) =>
            (dn.rect_map = <<>> /\ dn.zoomable_map = <<>> /\ ~laysOut)
       /\ (QLe(QSub(w, QInt(6)), QInt(20)) \/ QLe(QSub(h, QInt(8 + dn.L)), QInt(20))) =>
            ~laysOut

\* draw_node has returned from a directory with two children of positive
\* size whose child area is exactly 20 units wide and 32 high, and has
\* placed the block only.
C13_Witness ==
  /\ dn.pc = "done"
  /\ dn.is_dir
  /\ dn.sizes = <<2, 1>>
  /\ dn.rect = <<QInt(0), QInt(0), QInt(26), QInt(50)>>
  /\ dn.L = 10
  /\ Len(dn.rect_map) = 1

\* C14: a listing failure on a directory is contained: the directory's node
\* is produced, its children are exactly the entries enumerated before the
\* failure, its size is the sum of their sizes, the scan goes on with the
\* directory's siblings (a scan that was not stopped has a node for each of
\* them when it is done), and the scan never emits error: when it is done
\* it has emitted finished, or cancelled after a stop.
C14_ListingFailureContained ==
  \A w \in Workers :
    /\ ~HasSig(w, "error")
    /\ wpc[w] = "done" =>
         (HasSig(w, "finished") \/ (stopped[w] /\ HasSig(w, "cancelled")))
    /\ \A i \in DOMAIN hist[w].failed :
         LET p == hist[w].failed[i].path
             k == hist[w].failed[i].idx
             rec == nodes[w][p]
         IN ~HasSig(w, "cancelled") =>
              /\ rec.made
              /\ rec.is_dir
              /\ rec.children = SubSeq(Entries(p, removed), 1, k)
              /\ rec.size = SumSizes(nodes, w, rec.children)
              /\ (wpc[w] = "done" /\ ~stopped[w] /\ p # wpath[w]) =>
                   \A j \in DOMAIN Entries(Front(p), removed) :
                     nodes[w][Entries(Front(p), removed)[j]].made

\* A scan of / has finished after the listing of /home failed behind its
\* first entry, and has gone on to /tmp.
C14_Witness ==
  \E w \in Workers :
    /\ wpath[w] = <<>>
    /\ HasSig(w, "finished")
    /\ hist[w].failed = <<[path |-> <<"home">>, idx |-> 1]>>
    /\ nodes[w][<<"home">>].children = << <<"home", "a">> >>
    /\ nodes[w][<<"home">>].size = 2
    /\ nodes[w][TmpDir].made
    /\ nodes[w][<<>>].size = 2

\* C15: a double-click changes current_node or the hue stack only when its
\* target is a directory with at least one child; then current_node becomes
\* the target, the hue pushed on the stack is the hue the target had cached,
\* and the target keeps that hue and is drawn at depth 0 after the zoom; a
\* double-click on any other target, or on none, leaves current_node and the
\* hue stack as they were.
C15_ZoomGuardedKeepsHue ==
  [][DoubleClick =>
       \E e \in zoomable_map \cup {<<NoNode, 0>>} :
         LET target == e[1]
             rec == NodeOf(nodes, target)
         IN IF target # NoNode /\ rec.is_dir /\ rec.children # <<>>
              THEN /\ current_node' = target
                   /\ rec.hue # NoHue
                   /\ baseHueStack' = Append(baseHueStack, rec.hue)
                   /\ NodeOf(nodes', target).hue = rec.hue
                   /\ <<target, 0>> \in rect_map'
              ELSE /\ current_node' = current_node
                   /\ baseHueStack' = baseHueStack]_vars

\* A double-click has zoomed from the root of a scan of / into /home, which
\* was drawn one level below the root, and /home kept its hue.
C15_Witness ==
  /\ root_node # NoNode
  /\ root_node[2] = <<>>
  /\ current_node = <<root_node[1], <<"home">> >>
  /\ Len(baseHueStack) = 2
  /\ baseHueStack[2] = NodeOf(nodes, current_node).hue
  /\ baseHueStack[2] = DepthHue(baseHueStack[1], 1)

C17_HueStackTracksDepth ==
  /\ [](root_node # NoNode /\ current_node # NoNode =>
          /\ IsPrefix(root_node[2], current_node[2])
          /\ Len(baseHueStack) - 1 = Len(current_node[2]) - Len(root_node[2]))
  /\ [][GoUp /\ current_node' # current_node =>
          /\ ParentOf(nodes, current_node) # NoNode
          /\ current_node' = ParentOf(nodes, current_node)
          /\ baseHueStack' = Front(baseHueStack)
          /\ baseHueStack' # <<>>]_vars

\* draw_node has laid out the chrome of a block of positive width and height.
ChromeLaidOut ==
  /\ dn.pc \in {"squarify", "done"}
  /\ QLt(QInt(0), dn.rect[3])
  /\ QLt(QInt(0), dn.rect[4])

\* C18: the chrome of a block shrinks in strict priority order: while the
\* child area has any height, spacing, label and paddings are at their full
\* 2, L, 2 and 2 units; the spacing is below 2 only when the child area is
\* zero; the label is below L only when the spacing is zero; a padding is
\* below 2 only when the spacing is zero and the label has nothing left to
\* give; and the two paddings are always equal.
C18_ChromeShrinkOrder ==
  ChromeLaidOut =>
    LET c == dn.chrome
        full(v, n) == v = QInt(n)
    IN /\ QLt(QInt(0), c.sub_view_height) =>
            /\ full(c.spacing, 2)
            /\ full(c.label_height, dn.L)
            /\ full(c.top_padding, 2)
            /\ full(c.bottom_padding, 2)
       /\ ~full(c.spacing, 2) => c.sub_view_height = QInt(0)
       /\ ~full(c.label_height, dn.L) => c.spacing = QInt(0)
       /\ (~full(c.top_padding, 2) \/ ~full(c.bottom_padding, 2)) =>
            (c.spacing = QInt(0) /\ QLe(c.label_height, QInt(0)))
       /\ c.top_padding = c.bottom_padding

\* Child c is among the children within the count cap: fewer than MaxVisible
\* children come before it in descending size order, ties in input order.
WithinCap(sizes, c) ==
  Cardinality({b \in DOMAIN sizes : LargerFirst(sizes, b, c)}) < MaxVisible

\* C19: when a directory with children and a usable child area has only
\* zero-sized children, every child within the cap is placed and the
\* placements share the child area evenly; and a zero-sized child within
\* the cap is always placed, with a positive area.
C19_ZeroSizedChildrenPlaced ==
  LaidOutDirectory =>
    LET placed == SelectSeq(dn.rect_map, LAMBDA e : e.depth = 1)
        shown == {c \in DOMAIN dn.sizes : WithinCap(dn.sizes, c)}
        area(c) == RectArea((CHOOSE e \in {placed[i] : i \in DOMAIN placed} :
                               e.who = c).rect)
        isPlaced(c) == \E i \in DOMAIN placed : placed[i].who = c
    IN /\ (\A c \in DOMAIN dn.sizes : dn.sizes[c] = 0) =>
            \A c \in shown :
              /\ isPlaced(c)
              /\ QMul(area(c), QInt(Cardinality(shown))) = RectArea(dn.sub_view_rect)
       /\ \A c \in shown :
            dn.sizes[c] = 0 => (isPlaced(c) /\ QLt(QInt(0), area(c)))

\* C20: when an others block is drawn, it takes the excluded children's
\* share of the child area, no visible child's rectangle overlaps it, and
\* the children's rectangles and the others rectangle lie within the child
\* area.
C20_VisibleAndOthersDisjoint ==
  (dn.pc = "done" /\ dn.others # <<>>) =>
    LET placed == SelectSeq(dn.rect_map, LAMBDA e : e.depth = 1)
        sub == dn.sub_view_rect
    IN /\ QMul(RectArea(dn.others[1]), QInt(dn.total))
            = QMul(RectArea(sub), QInt(dn.othersSize))
       /\ RectWithin(dn.others[1], sub[1], sub[2], sub[3], sub[4])
       /\ \A i \in DOMAIN placed :
            /\ RectWithin(placed[i].rect, sub[1], sub[2], sub[3], sub[4])
            /\ ~RectsOverlap(placed[i].rect, dn.others[1])

\* squarify is in, or has returned from, a call with a non-empty list of
\* positive areas and a rectangle of positive width and height.
SquarifyCalledValid ==
  /\ sq.pc \in {"loop", "returned", "raised"}
  /\ sq.args.areas # <<>>
  /\ \A i \in DOMAIN sq.args.areas : QLt(QInt(0), sq.args.areas[i])
  /\ QLt(QInt(0), sq.args.width)
  /\ QLt(QInt(0), sq.args.height)

RECURSIVE RowLengths(_)
RowLengths(rows) ==
  IF rows = <<>> THEN 0 ELSE Len(Head(rows).row) + RowLengths(Tail(rows))

RECURSIVE RowsJoined(_)
RowsJoined(rows) == IF rows = <<>> THEN <<>> ELSE Head(rows).row \o RowsJoined(Tail(rows))

\* The rows squarify has closed were grown by comparing worst ratios against
\* the longer (or, for longer = FALSE, the shorter) of the remaining width
\* and height: that side was the one used; every area but the first of a row
\* was added without increasing the row's worst ratio against it; the first
\* pending area, if any, would have increased it; every row holds at least
\* one area; the rows and the pending areas are the input in input order; and
\* a call that has returned has placed every input.
RowsGrownAgainst(longer) ==
  /\ sq.pc # "raised"
  /\ \A i \in DOMAIN sq.rows :
       LET e == sq.rows[i]
           widthIsLonger == QLe(e.height, e.width)
           side == IF widthIsLonger = longer THEN e.width ELSE e.height
       IN /\ e.length = side
          /\ Len(e.row) >= 1
          /\ \A k \in 1..(Len(e.row) - 1) :
               QLe(worst_ratio(SubSeq(e.row, 1, k + 1), side),
                   worst_ratio(SubSeq(e.row, 1, k), side))
          /\ e.pending # <<>> =>
               QLt(worst_ratio(e.row, side),
                   worst_ratio(Append(e.row, Head(e.pending)), side))
  /\ RowsJoined(sq.rows) \o sq.areas = sq.args.areas
  /\ Len(sq.rects) = RowLengths(sq.rows)
  /\ sq.pc = "returned" => Len(sq.rects) = Len(sq.args.areas)

\* C21 as stated: squarify grows its rows by comparing worst ratios computed
\* against the shorter of the remaining rectangle's width and height, adds an
\* area exactly when that does not increase the row's worst ratio, places at
\* least one area in each iteration and returns with every input placed.
C21_RowsGrownAgainstShorterSide == SquarifyCalledValid => RowsGrownAgainst(FALSE)

\* C21, amended: for positive areas and a rectangle of positive width and
\* height, squarify grows its rows by comparing worst ratios computed against
\* the longer of the remaining rectangle's width and height (the width when
\* width >= height, else the height); it adds an area exactly when that does
\* not increase the row's worst ratio, places at least one area in each
\* iteration and returns with every input placed.
C21_RowsGrownAgainstLongerSide == SquarifyCalledValid => RowsGrownAgainst(TRUE)

\* squarify has returned after closing two rows: the first took two of the
\* three areas, the third would have raised its worst ratio.
C21_Witness ==
  /\ sq.pc = "returned"
  /\ SquarifyCalledValid
  /\ Len(sq.args.areas) = 3
  /\ Len(sq.rows) = 2
  /\ Len(sq.rows[1].row) = 2
  /\ sq.rows[1].width # sq.rows[1].height

\* C22: a node's hue is assigned once, by the first paint pass that draws
\* it, as (top of the hue stack + depth * 30) mod 360, and no later step
\* (paint pass, selection, zoom, go_up, go_top) changes a hue that is set;
\* outside its scan, no step changes a node's size, children or parent.
C22_HueAssignedOnceLayoutReadOnly ==
  [][/\ \A e \in rect_map' : NodeOf(nodes', e[1]).hue # NoHue
     /\ \A w \in Workers : \A p \in FsPaths :
          LET old == nodes[w][p]
              new == nodes'[w][p]
          IN old.made /\ new.made =>
               /\ old.hue # NoHue => new.hue = old.hue
               /\ old.hue = NoHue /\ new.hue # NoHue =>
                    \E e \in rect_map' :
                      /\ e[1] = <<w, p>>
                      /\ new.hue = DepthHue(Last(baseHueStack'), e[2])
               /\ wpc[w] \notin {"start", "scan"} =>
                    /\ new.size = old.size
                    /\ new.children = old.children
                    /\ new.parent = old.parent
                    /\ new.is_dir = old.is_dir]_vars

\* The view is zoomed into a child of the root: the root, no longer drawn,
\* keeps the hue of the first pass, the child keeps the hue it got at depth 1
\* and is drawn at depth 0, and its own children have got theirs at depth 1.
C22_Witness ==
  /\ root_node # NoNode
  /\ current_node # root_node
  /\ ParentOf(nodes, current_node) = root_node
  /\ Len(baseHueStack) = 2
  /\ ~\E e \in rect_map : e[1] = root_node
  /\ NodeOf(nodes, root_node).hue = DepthHue(baseHueStack[1], 0)
  /\ NodeOf(nodes, current_node).hue = DepthHue(baseHueStack[1], 1)
  /\ <<current_node, 0>> \in rect_map
  /\ \E e \in rect_map :
       /\ e[2] = 1
       /\ NodeOf(nodes, e[1]).hue = DepthHue(baseHueStack[2], 1)
       /\ NodeOf(nodes, e[1]).hue # NodeOf(nodes, current_node).hue

\* Node n is root or is reached from a child of root through children lists,
\* and its parent links lead back to root.
RECURSIVE IsRootOrDescendant(_, _, _)
IsRootOrDescendant(nds, n, root) ==
  \/ n = root
  \/ LET p == ParentOf(nds, n)
     IN /\ p # NoNode
        /\ NodeOf(nds, p).made
        /\ \E i \in DOMAIN NodeOf(nds, p).children : NodeOf(nds, p).children[i] = n[2]
        /\ IsRootOrDescendant(nds, p, root)

\* C23: whenever current_node is set, the hue stack is non-empty and
\* current_node is root_node or a descendant of root_node in the tree of the
\* last finished scan; Go Up and Go Top are enabled exactly when current_node
\* is set and is not root_node.
C23_NavigationInvariant ==
  /\ current_node # NoNode =>
       /\ baseHueStack # <<>>
       /\ root_node # NoNode
       /\ NodeOf(nodes, current_node).made
       /\ NodeOf(nodes, root_node).parent = NoPath
       /\ IsRootOrDescendant(nodes, current_node, root_node)
  /\ buttons.goUp = (current_node # NoNode /\ current_node # root_node)
  /\ buttons.goTop = (current_node # NoNode /\ current_node # root_node)

\* After a stopped first scan and a finished second one, the view is zoomed
\* into a directory below the root and both actions are enabled.
C23_Witness ==
  /\ stopped[1]
  /\ root_node # NoNode
  /\ root_node[1] = 2
  /\ current_node # NoNode
  /\ current_node # root_node
  /\ ParentOf(nodes, current_node) = root_node
  /\ Len(baseHueStack) = 2
  /\ buttons.goUp
  /\ buttons.goTop

=============================================================================
